---- MODULE Spec2Model ----
(***************************************************************************)
(* GTARadio: the asynchronous import-job subsystem of tools/serve.py (job  *)
(* registry, worker, status queries) and the station import pipeline of    *)
(* tools/import_gta3_audio.py.                                             *)
(*                                                                         *)
(* Python's None is the empty tuple; a value that may be None is held as a *)
(* one-element tuple <<v>>.  The wall-clock fields started_at, updated_at  *)
(* of a job are written but never read by the code modelled here and are   *)
(* left out of the job record.                                             *)
(***************************************************************************)
EXTENDS Integers, Sequences, FiniteSets, TLC

\* ------------------------------------------------------------------ bounds
\* Callers of start_import_job (each starts one job).
MaxJobs == 2
\* Stations (a prefix of STATIONS) whose notifications reach the observer.
HookStations == 2
\* Stations (a prefix of STATIONS) that may have files in the audio directory
\* or a file in the target directory before the run.
FileStations == 2
\* Directory entries whose name matches one station, ignoring case, at most.
MaxEntries == 2
\* Paths below the root of a tree: named subfolders and paths of the scan.
MaxDirs == 3

\* --------------------------------------------------------------- constants
STATIONS == <<"HEAD", "CLASS", "KJAH", "RISE", "LIPS", "GAME", "MSX", "FLASH", "CHAT">>

None == <<>>
Some(v) == <<v>>

Max(a, b) == IF a >= b THEN a ELSE b

Callers == 1..MaxJobs
\* the threads that serve GET /api/import-gta3-status
Pollers == {"p1", "p2"}
\* uuid4 ids; one more than can be allocated, so an id no job ever gets exists
JobIds == 1..(MaxJobs + 1)
\* uuid.uuid4().hex: a value no other call draws; the draw of caller c is c
Uuid4(c) == c

\* the paths a client submits: a game folder whose audio directory can be
\* located, and a folder that holds no station file anywhere
Roots == {"/games/gta3", "/empty"}
Locatable(path) == path = "/games/gta3"

VARIABLES
  toolOnPath,    \* whether ffmpeg or avconv is resolvable on the search path
  JOB_REGISTRY,  \* job id -> job dict
  callerPc,      \* start_import_job: position of each caller
  callerJob,     \* start_import_job: the local `job` (its id)
  callerRet,     \* start_import_job: the returned object
  workerPc,      \* _run_import_job: position of the worker thread of each id
  notified,      \* station indices whose notification the observer has received
  escaped,       \* ids whose worker thread died with an uncaught exception
  polled,        \* _handle_import_status: last answer each poller got
  impRoot,       \* import_gta3_audio: game_root
  impPc,         \* import_gta3_audio: position of the run
  impExc,        \* import_gta3_audio: the exception it raised
  stationIx,     \* import_gta3_audio: index in STATIONS of the loop's `stem`
  src,           \* import_gta3_audio: the loop's `src`
  summary,       \* import_gta3_audio: the `summary` dict
  dstFiles,      \* stems whose STEM.mp3 exists in target_dir
  cacheFile,     \* whether target_dir holds import-cache.json
  targetDir,     \* whether the directory target_dir exists
  unlinkErrors,  \* stems whose dst.unlink() raised the OSError that is passed over
  toolRuns,      \* the subprocess.run calls of transcode_to_mp3: stem and exit code
  audioDir,      \* find_src: what iterdir() of audio_dir yields for the station
  iterdirFails,  \* find_src: whether iterdir() raises OSError
  tree,          \* locate_audio_directory: the directory tree at `root`
  located,       \* locate_audio_directory: what the call returned or raised
  JOB_LOCK,      \* the thread inside a `with JOB_LOCK:` block, if any
  unlocked,      \* reads and writes of a registered job's dict made outside such a block
  pollPc,        \* _handle_import_status: the id a poller is inside _get_job for
  hookStation    \* the station a worker's pipeline is at (0: none)

lockVars == <<JOB_LOCK, unlocked, pollPc, hookStation>>
jobVars == <<JOB_REGISTRY, callerPc, callerJob, callerRet, workerPc, notified, escaped, polled, lockVars>>
findVars == <<audioDir, iterdirFails>>
locVars == <<tree, located>>
impVars == <<impRoot, impPc, impExc, stationIx, src, summary, dstFiles, cacheFile, targetDir, unlinkErrors, toolRuns, findVars, locVars>>

\* ------------------------------------------------------------ the registry

\* _register_job: under JOB_LOCK, JOB_REGISTRY[job["id"]] = job
_register_job(reg, job) == [k \in DOMAIN reg \cup {job.id} |-> IF k = job.id THEN job ELSE reg[k]]

\* dict.update(fields): keys of fields overwrite or are added
DictUpdate(d, fields) == [k \in DOMAIN d \cup DOMAIN fields |-> IF k \in DOMAIN fields THEN fields[k] ELSE d[k]]

\* _update_job: under JOB_LOCK; an unknown id changes nothing
_update_job(reg, job_id, fields) == IF job_id \notin DOMAIN reg THEN reg ELSE [reg EXCEPT ![job_id] = DictUpdate(reg[job_id], fields)]

\* the dict _create_job builds
NewJob(job_id, path) == [id |-> job_id, status |-> "pending", gta3_dir |-> path, progress |-> 0, total |-> Len(STATIONS), records |-> <<>>, summary |-> None, error |-> None]

\* json.dumps of an optional value: None is null, anything else is kept
JsonEncode(v) == IF v = None THEN <<"null">> ELSE <<"value", v[1]>>
JsonDecode(d) == IF d[1] = "null" THEN None ELSE Some(d[2])

\* json.dumps(job): every key of the dict, each value serialised
JsonDumps(job) == [k \in DOMAIN job |-> IF k \in {"summary", "error"} THEN JsonEncode(job[k]) ELSE <<"value", job[k]>>]
\* json.loads: a fresh dict with the same keys
JsonLoads(doc) == [k \in DOMAIN doc |-> IF k \in {"summary", "error"} THEN JsonDecode(doc[k]) ELSE doc[k][2]]

\* An object a function returned: a fresh dict (live = FALSE, its content in
\* val) or a reference to the dict held in the registry (live = TRUE);
\* DerefIn reads it.
Copy(job) == [live |-> FALSE, id |-> job.id, val |-> job]
LiveRef(job_id) == [live |-> TRUE, id |-> job_id, val |-> None]
DerefIn(reg, obj) == IF obj.live THEN reg[obj.id] ELSE obj.val

\* a _get_job that hands out the registry's own dict
_get_job_live(reg, job_id) == IF job_id \notin DOMAIN reg THEN None ELSE Some(LiveRef(job_id))

\* a _get_job that answers an unknown id with a blank job (JOB_REGISTRY.get(job_id, default))
_get_job_default(reg, job_id) == IF job_id \notin DOMAIN reg THEN Some(Copy(NewJob(job_id, ""))) ELSE Some(Copy(JsonLoads(JsonDumps(reg[job_id]))))

\* _get_job: under JOB_LOCK; None for an unknown id, else a JSON round trip
_get_job(reg, job_id) == IF job_id \notin DOMAIN reg THEN None ELSE Some(Copy(JsonLoads(JsonDumps(reg[job_id]))))

\* a progress_hook that stores the index of the notification as it comes
progress_hook_nomax(reg, job_id, event) ==
  IF event.type = "station" /\ job_id \in DOMAIN reg
  THEN [reg EXCEPT ![job_id] = DictUpdate(reg[job_id],
         [progress |-> event.record.index,
          records |-> DictUpdate(reg[job_id].records, [s \in {event.record.stem} |-> event.record]),
          partial_summary |-> event.summary])]
  ELSE reg

\* a progress_hook that applies the notification to every job of the registry
progress_hook_every(reg, job_id, event) ==
  IF event.type = "station" /\ event.record.stem # ""
  THEN [k \in DOMAIN reg |-> DictUpdate(reg[k],
         [progress |-> Max(event.record.index, reg[k].progress),
          records |-> DictUpdate(reg[k].records, [s \in {event.record.stem} |-> event.record]),
          partial_summary |-> event.summary])]
  ELSE reg

\* progress_hook: the closure _run_import_job hands to the pipeline
progress_hook(reg, job_id, event) ==
  IF event.type = "station"
  THEN IF event.record.stem = "" \/ job_id \notin DOMAIN reg
       THEN reg
       ELSE [reg EXCEPT ![job_id] = DictUpdate(reg[job_id],
              [progress |-> Max(event.record.index, reg[job_id].progress),
               records |-> DictUpdate(reg[job_id].records, [s \in {event.record.stem} |-> event.record]),
               partial_summary |-> event.summary])]
  ELSE IF event.type = "complete"
  THEN _update_job(reg, job_id, [status |-> "completed", summary |-> Some(event.summary), progress |-> Len(STATIONS)])
  ELSE reg

\* ------------------------------------------------------- start_import_job

Allocated == {callerJob[c] : c \in {d \in Callers : callerPc[d] # "idle"}}

\* _create_job: a fresh uuid4 id, the pending dict, registered
CreateJob(c) ==
  /\ callerPc[c] = "idle"
  /\ \E path \in Roots :
       /\ JOB_REGISTRY' = _register_job(JOB_REGISTRY, NewJob(Uuid4(c), path))
       /\ callerJob' = [callerJob EXCEPT ![c] = Uuid4(c)]
  /\ callerPc' = [callerPc EXCEPT ![c] = "created"]
  /\ UNCHANGED <<toolOnPath, callerRet, workerPc, notified, escaped, polled>>
  /\ UNCHANGED <<impVars, lockVars>>

\* thread.start(): the worker of the job exists from here on
ThreadStart(c) ==
  /\ callerPc[c] = "created"
  /\ workerPc' = [workerPc EXCEPT ![callerJob[c]] = "start"]
  /\ callerPc' = [callerPc EXCEPT ![c] = "started"]
  /\ UNCHANGED <<toolOnPath, JOB_REGISTRY, callerJob, callerRet, notified, escaped, polled>>
  /\ UNCHANGED <<impVars, lockVars>>

\* a start_import_job that joins the worker before it returns
StartReturnJoin(c) ==
  /\ callerPc[c] = "started"
  /\ workerPc[callerJob[c]] = "done"
  /\ callerRet' = [callerRet EXCEPT ![c] = _get_job(JOB_REGISTRY, callerJob[c])]
  /\ callerPc' = [callerPc EXCEPT ![c] = "returned"]
  /\ UNCHANGED <<toolOnPath, JOB_REGISTRY, callerJob, workerPc, notified, escaped, polled>>
  /\ UNCHANGED <<impVars, lockVars>>

\* return _get_job(job["id"]) or job
StartReturn(c) ==
  /\ callerPc[c] = "started"
  /\ LET snap == _get_job(JOB_REGISTRY, callerJob[c])
     IN callerRet' = [callerRet EXCEPT ![c] = IF snap = None THEN Some(LiveRef(callerJob[c])) ELSE snap]
  /\ callerPc' = [callerPc EXCEPT ![c] = "returned"]
  /\ UNCHANGED <<toolOnPath, JOB_REGISTRY, callerJob, workerPc, notified, escaped, polled>>
  /\ UNCHANGED <<impVars, lockVars>>

\* --------------------------------------------------------- _run_import_job

\* _update_job(job_id, status="running")
WorkerRunning(j) ==
  /\ workerPc[j] = "start"
  /\ JOB_REGISTRY' = _update_job(JOB_REGISTRY, j, [status |-> "running"])
  /\ workerPc' = [workerPc EXCEPT ![j] = "call"]
  /\ UNCHANGED <<toolOnPath, callerPc, callerJob, callerRet, notified, escaped, polled>>
  /\ UNCHANGED <<impVars, lockVars>>

\* a worker that catches the structural error only
CaughtImportErrorOnly(exc) == exc.class = "AudioImportError"

\* the classes `except Exception` catches (AudioImportError is a RuntimeError)
Caught(exc) == exc.class \in {"AudioImportError", "TypeError", "OSError"}

\* handlers that put the job back to pending for another attempt
HandleExceptionRequeue(reg, job_id, exc) == _update_job(reg, job_id, [status |-> "pending", error |-> Some(<<"Unexpected failure: ", exc.message>>)])

\* handlers that store str(exc) alone, whatever the class
HandleExceptionBare(reg, job_id, exc) == _update_job(reg, job_id, [status |-> "failed", error |-> Some(<<exc.message>>)])

\* except AudioImportError as exc: _update_job(job_id, status="failed", error=str(exc))
\* except Exception as exc: _update_job(job_id, status="failed", error=f"Unexpected failure: {exc}")
\* (the message is kept as the tuple of the parts the f-string joins)
HandleException(reg, job_id, exc) ==
  IF exc.class = "AudioImportError"
  THEN _update_job(reg, job_id, [status |-> "failed", error |-> Some(<<exc.message>>)])
  ELSE IF Caught(exc)
  THEN _update_job(reg, job_id, [status |-> "failed", error |-> Some(<<"Unexpected failure: ", exc.message>>)])
  ELSE reg

\* the try block left by an exception: the handlers run, the thread ends
WorkerExcept(j, exc) ==
  /\ JOB_REGISTRY' = HandleException(JOB_REGISTRY, j, exc)
  /\ escaped' = IF Caught(exc) THEN escaped ELSE escaped \cup {j}
  /\ workerPc' = [workerPc EXCEPT ![j] = "done"]
  /\ UNCHANGED <<toolOnPath, callerPc, callerJob, callerRet, notified, polled>>
  /\ UNCHANGED <<impVars, lockVars>>

\* a finalization that marks the job completed and stores nothing else
FinalizeStatusOnly(reg, job_id, result) == _update_job(reg, job_id, [status |-> "completed"])

\* line 192 after the pipeline returned `summary`
FinalizeCompleted(reg, job_id, result) == _update_job(reg, job_id, [status |-> "completed", summary |-> Some(result), progress |-> Len(STATIONS)])

\* import_gta3_audio(game_root, progress_callback=progress_hook): the function
\* takes game_root and the keyword-only target_dir and preferred_tool, so
\* binding the arguments raises TypeError before its body runs
ImportSignature == {"game_root", "target_dir", "preferred_tool"}
CallKeywords == {"game_root", "progress_callback"}
TypeErrorOfCall == [class |-> "TypeError", message |-> "import_gta3_audio() got an unexpected keyword argument 'progress_callback'"]

WorkerCall(j) ==
  /\ workerPc[j] = "call"
  /\ ~(CallKeywords \subseteq ImportSignature)
  /\ WorkerExcept(j, TypeErrorOfCall)

\* ---------------------------------------------------- _handle_import_status

\* job = _get_job(job_id); 404 when not job, else 200 with the job
Poll(t, job_id) ==
  /\ LET job == _get_job(JOB_REGISTRY, job_id)
     IN polled' = [polled EXCEPT ![t] = Some([id |-> job_id, code |-> IF job = None THEN 404 ELSE 200, job |-> job])]
  /\ UNCHANGED <<toolOnPath, JOB_REGISTRY, callerPc, callerJob, callerRet, workerPc, notified, escaped>>
  /\ UNCHANGED <<impVars, lockVars>>

\* ------------------------------------ a pipeline that honours the observer
\* spec.md 4.3: after each station the pipeline notifies the injected observer
\* with the station index, the record just produced and the Summary so far;
\* structural failures abort the run before any station is processed.

\* the Summary after n stations
SummaryAfter(n) == [expected |-> Len(STATIONS), processed |-> n]

StationEvent(i, st) == [type |-> "station", record |-> [stem |-> STATIONS[i], index |-> i, status |-> st], summary |-> SummaryAfter(i)]

DirectoryNotFound == [class |-> "AudioImportError", message |-> "Unable to locate GTA III audio files under the provided directory."]
ToolNotFound == [class |-> "AudioImportError", message |-> "ffmpeg (or avconv) not found on PATH."]
\* a run that resolves the tool only when a station needs it
StructuralErrorsDirOnly(path) == IF ~Locatable(path) THEN {DirectoryNotFound} ELSE {}

\* the structural error of a run on `path`, if any: the directory first
StructuralErrors(path) == IF ~Locatable(path) THEN {DirectoryNotFound} ELSE IF ~toolOnPath THEN {ToolNotFound} ELSE {}
UnexpectedErrors == {[class |-> "OSError", message |-> ""]}

\* the notification of one station reaches progress_hook; each station
\* notifies once, and the notifications arrive in any order
PipelineNotify(j) ==
  /\ workerPc[j] = "call"
  /\ StructuralErrors(JOB_REGISTRY[j].gta3_dir) = {}
  /\ \E i \in (1..HookStations) \ notified[j] :
       /\ JOB_REGISTRY' = progress_hook(JOB_REGISTRY, j, StationEvent(i, "copied"))
       /\ notified' = [notified EXCEPT ![j] = @ \cup {i}]
  /\ UNCHANGED <<toolOnPath, callerPc, callerJob, callerRet, workerPc, escaped, polled>>
  /\ UNCHANGED <<impVars, lockVars>>

\* the pipeline returns its final Summary; line 192 finalizes the job
PipelineReturns(j) ==
  /\ workerPc[j] = "call"
  /\ StructuralErrors(JOB_REGISTRY[j].gta3_dir) = {}
  /\ JOB_REGISTRY' = FinalizeCompleted(JOB_REGISTRY, j, SummaryAfter(Len(STATIONS)))
  /\ workerPc' = [workerPc EXCEPT ![j] = "done"]
  /\ UNCHANGED <<toolOnPath, callerPc, callerJob, callerRet, notified, escaped, polled>>
  /\ UNCHANGED <<impVars, lockVars>>

\* the pipeline raises: a structural error before any station, or any other
\* fault at any point
PipelineRaises(j) ==
  /\ workerPc[j] = "call"
  /\ \E exc \in (IF notified[j] = {} THEN StructuralErrors(JOB_REGISTRY[j].gta3_dir) ELSE {}) \cup UnexpectedErrors :
       WorkerExcept(j, exc)

\* ------------------------------------------- the same at the grain of JOB_LOCK
\* Each `with JOB_LOCK:` block is two steps: the thread enters it (it waits
\* while another thread is inside), then runs its body and leaves.  What a
\* thread does with a registered dict outside such a block is recorded in
\* `unlocked`.  The pipeline is the one that honours the observer: between
\* two notifications the external tool runs.

CallerThread(c) == <<"caller", c>>
WorkerThread(j) == <<"worker", j>>
PollerThread(t) == <<"poller", t>>

\* threading.Lock: acquire blocks while the lock is held, also by the caller
Acquire(th) == JOB_LOCK = None /\ JOB_LOCK' = Some(th)
\* a block left without giving the lock back
KeepLock(th) == JOB_LOCK = Some(th) /\ JOB_LOCK' = JOB_LOCK
\* the end of the with block
Release(th) == JOB_LOCK = Some(th) /\ JOB_LOCK' = None

\* an access to a field of a dict that is in the registry, outside the lock
Access(line, field, op) == [line |-> line, field |-> field, op |-> op]

\* _create_job builds the dict (lines 152-164); _register_job enters its block
RegisterEnter(c) ==
  /\ callerPc[c] = "idle"
  /\ Acquire(CallerThread(c))
  /\ callerJob' = [callerJob EXCEPT ![c] = Uuid4(c)]
  /\ callerPc' = [callerPc EXCEPT ![c] = "register"]
  /\ UNCHANGED <<toolOnPath, JOB_REGISTRY, callerRet, workerPc, notified, escaped, polled, unlocked, pollPc, hookStation, impVars>>

\* JOB_REGISTRY[job["id"]] = job
RegisterBody(c) ==
  /\ callerPc[c] = "register"
  /\ \E path \in Roots : JOB_REGISTRY' = _register_job(JOB_REGISTRY, NewJob(callerJob[c], path))
  /\ Release(CallerThread(c))
  /\ callerPc' = [callerPc EXCEPT ![c] = "created"]
  /\ UNCHANGED <<toolOnPath, callerJob, callerRet, workerPc, notified, escaped, polled, unlocked, pollPc, hookStation, impVars>>

\* lines 203-204: args=(job["id"], game_root) reads the registered dict, then
\* thread.start()
StartThread(c) ==
  /\ callerPc[c] = "created"
  /\ unlocked' = unlocked \cup {Access(203, "id", "read")}
  /\ workerPc' = [workerPc EXCEPT ![callerJob[c]] = "start"]
  /\ callerPc' = [callerPc EXCEPT ![c] = "started"]
  /\ UNCHANGED <<toolOnPath, JOB_REGISTRY, callerJob, callerRet, notified, escaped, polled, JOB_LOCK, pollPc, hookStation, impVars>>

\* line 205: _get_job(job["id"]) reads the id, then enters the block
ReturnEnter(c) ==
  /\ callerPc[c] = "started"
  /\ unlocked' = unlocked \cup {Access(205, "id", "read")}
  /\ Acquire(CallerThread(c))
  /\ callerPc' = [callerPc EXCEPT ![c] = "get"]
  /\ UNCHANGED <<toolOnPath, JOB_REGISTRY, callerJob, callerRet, workerPc, notified, escaped, polled, pollPc, hookStation, impVars>>

\* the body of _get_job, and `or job`
ReturnBody(c) ==
  /\ callerPc[c] = "get"
  /\ LET snap == _get_job(JOB_REGISTRY, callerJob[c])
     IN callerRet' = [callerRet EXCEPT ![c] = IF snap = None THEN Some(LiveRef(callerJob[c])) ELSE snap]
  /\ Release(CallerThread(c))
  /\ callerPc' = [callerPc EXCEPT ![c] = "returned"]
  /\ UNCHANGED <<toolOnPath, JOB_REGISTRY, callerJob, workerPc, notified, escaped, polled, unlocked, pollPc, hookStation, impVars>>

\* line 190: _update_job(job_id, status="running") enters its block
RunningEnter(j) ==
  /\ workerPc[j] = "start"
  /\ Acquire(WorkerThread(j))
  /\ workerPc' = [workerPc EXCEPT ![j] = "running"]
  /\ UNCHANGED <<toolOnPath, JOB_REGISTRY, callerPc, callerJob, callerRet, notified, escaped, polled, unlocked, pollPc, hookStation, impVars>>

\* a worker that goes on to the pipeline inside the block
RunningBodyHold(j) ==
  /\ workerPc[j] = "running"
  /\ JOB_REGISTRY' = _update_job(JOB_REGISTRY, j, [status |-> "running"])
  /\ KeepLock(WorkerThread(j))
  /\ workerPc' = [workerPc EXCEPT ![j] = "call"]
  /\ UNCHANGED <<toolOnPath, callerPc, callerJob, callerRet, notified, escaped, polled, unlocked, pollPc, hookStation, impVars>>

\* the body of that _update_job; line 191 follows outside the block
RunningBody(j) ==
  /\ workerPc[j] = "running"
  /\ JOB_REGISTRY' = _update_job(JOB_REGISTRY, j, [status |-> "running"])
  /\ Release(WorkerThread(j))
  /\ workerPc' = [workerPc EXCEPT ![j] = "call"]
  /\ UNCHANGED <<toolOnPath, callerPc, callerJob, callerRet, notified, escaped, polled, unlocked, pollPc, hookStation, impVars>>

\* the pipeline works on the next station in order: the external tool runs
ToolRuns(j) ==
  /\ workerPc[j] = "call"
  /\ StructuralErrors(JOB_REGISTRY[j].gta3_dir) = {}
  /\ Cardinality(notified[j]) < HookStations
  /\ hookStation' = [hookStation EXCEPT ![j] = Cardinality(notified[j]) + 1]
  /\ workerPc' = [workerPc EXCEPT ![j] = "tool"]
  /\ UNCHANGED <<toolOnPath, JOB_REGISTRY, callerPc, callerJob, callerRet, notified, escaped, polled, JOB_LOCK, unlocked, pollPc, impVars>>

\* the station is done, the pipeline calls progress_hook, which enters its block
HookEnter(j) ==
  /\ workerPc[j] = "tool"
  /\ Acquire(WorkerThread(j))
  /\ workerPc' = [workerPc EXCEPT ![j] = "hook"]
  /\ UNCHANGED <<toolOnPath, JOB_REGISTRY, callerPc, callerJob, callerRet, notified, escaped, polled, unlocked, pollPc, hookStation, impVars>>

\* lines 176-184, then back in the pipeline
HookBody(j) ==
  /\ workerPc[j] = "hook"
  /\ JOB_REGISTRY' = progress_hook(JOB_REGISTRY, j, StationEvent(hookStation[j], "copied"))
  /\ notified' = [notified EXCEPT ![j] = @ \cup {hookStation[j]}]
  /\ hookStation' = [hookStation EXCEPT ![j] = 0]
  /\ Release(WorkerThread(j))
  /\ workerPc' = [workerPc EXCEPT ![j] = "call"]
  /\ UNCHANGED <<toolOnPath, callerPc, callerJob, callerRet, escaped, polled, unlocked, pollPc, impVars>>

\* the pipeline returned; line 192 enters its block
FinalizeEnter(j) ==
  /\ workerPc[j] = "call"
  /\ StructuralErrors(JOB_REGISTRY[j].gta3_dir) = {}
  /\ Acquire(WorkerThread(j))
  /\ workerPc' = [workerPc EXCEPT ![j] = "finalize"]
  /\ UNCHANGED <<toolOnPath, JOB_REGISTRY, callerPc, callerJob, callerRet, notified, escaped, polled, unlocked, pollPc, hookStation, impVars>>

FinalizeBody(j) ==
  /\ workerPc[j] = "finalize"
  /\ JOB_REGISTRY' = FinalizeCompleted(JOB_REGISTRY, j, SummaryAfter(Len(STATIONS)))
  /\ Release(WorkerThread(j))
  /\ workerPc' = [workerPc EXCEPT ![j] = "done"]
  /\ UNCHANGED <<toolOnPath, callerPc, callerJob, callerRet, notified, escaped, polled, unlocked, pollPc, hookStation, impVars>>

\* the pipeline raised; the handler's _update_job enters its block
ExceptEnter(j) ==
  /\ workerPc[j] = "call"
  /\ Acquire(WorkerThread(j))
  /\ workerPc' = [workerPc EXCEPT ![j] = "except"]
  /\ UNCHANGED <<toolOnPath, JOB_REGISTRY, callerPc, callerJob, callerRet, notified, escaped, polled, unlocked, pollPc, hookStation, impVars>>

\* lines 193-196 for the exception that was raised
ExceptBody(j) ==
  /\ workerPc[j] = "except"
  /\ \E exc \in (IF notified[j] = {} THEN StructuralErrors(JOB_REGISTRY[j].gta3_dir) ELSE {}) \cup UnexpectedErrors :
       JOB_REGISTRY' = HandleException(JOB_REGISTRY, j, exc)
  /\ Release(WorkerThread(j))
  /\ workerPc' = [workerPc EXCEPT ![j] = "done"]
  /\ UNCHANGED <<toolOnPath, callerPc, callerJob, callerRet, notified, escaped, polled, unlocked, pollPc, hookStation, impVars>>

\* _handle_import_status: _get_job(job_id) enters its block
StatusEnter(t, job_id) ==
  /\ pollPc[t] = None
  /\ Acquire(PollerThread(t))
  /\ pollPc' = [pollPc EXCEPT ![t] = Some(job_id)]
  /\ UNCHANGED <<toolOnPath, JOB_REGISTRY, callerPc, callerJob, callerRet, workerPc, notified, escaped, polled, unlocked, hookStation, impVars>>

\* the body of _get_job; the answer is sent outside the block
StatusBody(t) ==
  /\ pollPc[t] # None
  /\ LET job == _get_job(JOB_REGISTRY, pollPc[t][1])
     IN polled' = [polled EXCEPT ![t] = Some([id |-> pollPc[t][1], code |-> IF job = None THEN 404 ELSE 200, job |-> job])]
  /\ Release(PollerThread(t))
  /\ pollPc' = [pollPc EXCEPT ![t] = None]
  /\ UNCHANGED <<toolOnPath, JOB_REGISTRY, callerPc, callerJob, callerRet, workerPc, notified, escaped, unlocked, hookStation, impVars>>

\* the steps that end a with block
LeaveBlock ==
  \/ \E c \in Callers : RegisterBody(c) \/ ReturnBody(c)
  \/ \E j \in JobIds : RunningBody(j) \/ HookBody(j) \/ FinalizeBody(j) \/ ExceptBody(j)
  \/ \E t \in Pollers : StatusBody(t)

\* ------------------------------------------------------ import_gta3_audio
\* A directory entry whose name matches a station when case is ignored:
\* exact tells whether its stem is spelled as in STATIONS, ext is its suffix
\* as spelled, kind tells a regular file from a directory.  A listing is the
\* sequence of such entries of one station in the order iterdir() yields them.

\* a probe order that tries the wav spellings first
WavFirstExtensions == <<".wav", ".WAV", ".mp3", ".MP3">>

VALID_EXTENSIONS == <<".mp3", ".MP3", ".wav", ".WAV">>
\* suffixes as spelled on disk: the four above, a mixed-case one, a foreign one
Suffixes == {".mp3", ".MP3", ".wav", ".WAV", ".Wav", ".txt"}
\* a comparison of the suffix as spelled (src.suffix == ".mp3")
LowerKeep(ext) == ext

\* str.lower() on a suffix
Lower(ext) == IF ext \in {".mp3", ".MP3"} THEN ".mp3" ELSE IF ext \in {".wav", ".WAV", ".Wav"} THEN ".wav" ELSE ext

Entries == [exact : BOOLEAN, ext : Suffixes, kind : {"file", "dir"}]
SameName(a, b) == a.exact = b.exact /\ a.ext = b.ext
\* sequences of at most n entries with pairwise different names
RECURSIVE ListingsUpTo(_)
ListingsUpTo(n) == IF n = 0 THEN {<<>>} ELSE LET shorter == ListingsUpTo(n - 1) IN shorter \cup {Append(l, e) : l \in {m \in shorter : Len(m) = n - 1}, e \in Entries}
NoDuplicateNames(l) == \A i \in 1..Len(l), j \in 1..Len(l) : i # j => ~SameName(l[i], l[j])
AllListings == {l \in ListingsUpTo(MaxEntries) : NoDuplicateNames(l)}

\* the least index of seq whose element is in the set hits, 0 when none
FirstIn(seq, hits) == LET I == {i \in 1..Len(seq) : seq[i] \in hits} IN IF I = {} THEN 0 ELSE CHOOSE i \in I : \A j \in I : i <= j

\* find_src for one station: the (audio_dir / STEM+ext).exists() probes in the
\* order of VALID_EXTENSIONS, then the scan of iterdir(); scanFails tells that
\* iterdir() raises OSError
find_src(listing, scanFails) ==
  LET present == {listing[i] : i \in 1..Len(listing)}
      direct == FirstIn(VALID_EXTENSIONS, {e.ext : e \in {x \in present : x.exact}})
      scan == FirstIn(listing, {e \in present : e.kind = "file" /\ Lower(e.ext) \in {".mp3", ".wav"}})
  IN IF direct # 0
     THEN Some(CHOOSE e \in present : e.exact /\ e.ext = VALID_EXTENSIONS[direct])
     ELSE IF scanFails \/ scan = 0 THEN None ELSE Some(listing[scan])

\* the path of an entry of station stem, as str(src)
PathOf(stem, e) == <<"audio_dir", stem, e.exact, e.ext>>
\* target_dir / f"{stem}.mp3"
DestOf(stem) == <<"target_dir", stem, ".mp3">>

\* lines 164-177 (the keys the loop and its readers use)
NewSummary(tool) == [expected |-> Len(STATIONS), found |-> 0, copied |-> 0, converted |-> 0, missing |-> <<>>, failures |-> <<>>, details |-> <<>>, target |-> "target_dir", tool |-> tool]

\* what subprocess.run of the tool yields in transcode_to_mp3: (returncode,
\* logs); FileNotFoundError is (127, [])
ToolResults == {[code |-> 0, logs |-> <<>>], [code |-> 1, logs |-> <<"stderr">>], [code |-> 1, logs |-> <<>>], [code |-> 127, logs |-> <<>>]}

\* what the try block of the copy branch meets: the two paths resolve to the
\* same file, copy2 succeeds, copy2 raises SameFileError, or an OSError
CopyOutcomes(stem, e) ==
  (IF e.exact /\ e.ext = ".mp3" /\ stem \in dstFiles THEN {"same_path"} ELSE {})
    \cup (IF e.kind = "file" THEN {"copied", "SameFileError"} ELSE {})
    \cup {"OSError"}

\* the record and the counters after the loop body, lines 181-231
\* a `continue` taken before the record is appended
StationMissingUnrecorded(sum, stem) == [sum EXCEPT !.missing = Append(@, stem)]

StationMissing(sum, stem) == [sum EXCEPT !.missing = Append(@, stem), !.details = Append(@, [stem |-> stem, status |-> "missing"])]

StationCopied(sum, stem, e) == [sum EXCEPT !.found = @ + 1, !.copied = @ + 1, !.details = Append(@, [stem |-> stem, status |-> "copied", source |-> PathOf(stem, e), destination |-> DestOf(stem)])]

StationCopyFailed(sum, stem, e) == [sum EXCEPT !.found = @ + 1, !.failures = Append(@, stem), !.details = Append(@, [stem |-> stem, status |-> "failed", source |-> PathOf(stem, e), destination |-> DestOf(stem), error |-> "OSError"])]

StationConverted(sum, stem, e) == [sum EXCEPT !.found = @ + 1, !.converted = @ + 1, !.details = Append(@, [stem |-> stem, status |-> "converted", source |-> PathOf(stem, e), destination |-> DestOf(stem)])]

\* a failure branch that records the station without listing it in failures
StationTranscodeFailedUnlisted(sum, stem, e, res) == [sum EXCEPT !.found = @ + 1, !.details = Append(@, [stem |-> stem, status |-> "failed", source |-> PathOf(stem, e), destination |-> DestOf(stem), exit_code |-> res.code])]

StationTranscodeFailed(sum, stem, e, res) == [sum EXCEPT !.found = @ + 1, !.failures = Append(@, stem), !.details = Append(@, DictUpdate([stem |-> stem, status |-> "failed", source |-> PathOf(stem, e), destination |-> DestOf(stem), exit_code |-> res.code], IF res.logs # <<>> THEN [logs |-> res.logs] ELSE <<>>))]

\* the destination files after a copy or a tool run that failed: written
\* tells whether it left (or overwrote) a destination file before it failed
AfterWrite(files, stem, written) == IF written THEN files \cup {stem} ELSE files

\* a failure branch that leaves the destination file where it is
AfterNoUnlink(files, stem, unlinkFails) == files

\* if dst.exists(): dst.unlink(), an OSError of which is passed over
AfterUnlink(files, stem, unlinkFails) == IF stem \in files /\ ~unlinkFails THEN files \ {stem} ELSE files
\* the stems for which `except OSError: pass` (lines 213, 229) was taken
UnlinkRaised(errors, files, stem, unlinkFails) == IF stem \in files /\ unlinkFails THEN errors \cup {stem} ELSE errors

\* ensure_dir(target_dir), line 156: reached only when the audio directory
\* was located (line 152 did not raise); mkdir(parents=True, exist_ok=True)
ensure_dir(exists, reached) == exists \/ reached

\* lines 151-177: locate the audio directory, make the target directory,
\* resolve the tool; a structural error is raised before the loop
ImportStart ==
  /\ impPc = "start"
  /\ IF StructuralErrors(impRoot) # {}
     THEN /\ impExc' = Some(CHOOSE exc \in StructuralErrors(impRoot) : TRUE)
          /\ impPc' = "raised"
          /\ UNCHANGED <<summary, stationIx>>
     ELSE /\ summary' = Some(NewSummary("ffmpeg"))
          /\ stationIx' = 1
          /\ impPc' = "find"
          /\ UNCHANGED impExc
  /\ targetDir' = ensure_dir(targetDir, Locatable(impRoot))
  /\ UNCHANGED <<toolOnPath, jobVars, impRoot, src, dstFiles, cacheFile, unlinkErrors, toolRuns, findVars, locVars>>

\* what find_src may return for station number i, over every listing the
\* audio directory may hold for it and both fates of iterdir()
FoundSources == {find_src(listing, scanFails) : listing \in AllListings, scanFails \in BOOLEAN}
FindResults(i) == IF i <= FileStations THEN FoundSources ELSE {find_src(<<>>, FALSE)}

\* line 180: src = find_src(audio_dir, stem)
FindStation ==
  /\ impPc = "find"
  /\ \E found \in FindResults(stationIx) : src' = found
  /\ impPc' = "process"
  /\ UNCHANGED <<toolOnPath, jobVars, impRoot, impExc, stationIx, summary, dstFiles, cacheFile, targetDir, unlinkErrors, toolRuns, findVars, locVars>>

\* the end of one pass of the loop: the next station, or line 233
NextStation ==
  /\ stationIx' = stationIx + 1
  /\ impPc' = IF stationIx = Len(STATIONS) THEN "cache" ELSE "find"
  /\ src' = None
  /\ UNCHANGED <<toolOnPath, jobVars, impRoot, impExc, cacheFile, targetDir, findVars, locVars>>

\* lines 185-188: no source
ProcessMissing ==
  /\ impPc = "process"
  /\ src = None
  /\ summary' = Some(StationMissing(summary[1], STATIONS[stationIx]))
  /\ UNCHANGED <<dstFiles, unlinkErrors, toolRuns>>
  /\ NextStation

\* lines 195-214: the source is an mp3, it is copied; partial tells whether a
\* failed copy2 left a destination file behind
ProcessCopy ==
  /\ impPc = "process"
  /\ src # None
  /\ Lower(src[1].ext) = ".mp3"
  /\ LET stem == STATIONS[stationIx]
     IN \E outcome \in CopyOutcomes(stem, src[1]), partial \in BOOLEAN, unlinkFails \in BOOLEAN :
          IF outcome = "OSError"
          THEN /\ summary' = Some(StationCopyFailed(summary[1], stem, src[1]))
               /\ dstFiles' = AfterUnlink(AfterWrite(dstFiles, stem, partial), stem, unlinkFails)
               /\ unlinkErrors' = UnlinkRaised(unlinkErrors, AfterWrite(dstFiles, stem, partial), stem, unlinkFails)
          ELSE /\ summary' = Some(StationCopied(summary[1], stem, src[1]))
               /\ dstFiles' = dstFiles \cup {stem}
               /\ UNCHANGED unlinkErrors
  /\ UNCHANGED toolRuns
  /\ NextStation

\* lines 215-230: any other source is transcoded; the tool cannot read a
\* directory, and a tool that exits 0 has written the destination
ProcessTranscode ==
  /\ impPc = "process"
  /\ src # None
  /\ Lower(src[1].ext) # ".mp3"
  /\ LET stem == STATIONS[stationIx]
     IN \E res \in {r \in ToolResults : src[1].kind = "dir" => r.code # 0}, partial \in BOOLEAN, unlinkFails \in BOOLEAN :
          /\ toolRuns' = Append(toolRuns, [stem |-> stem, code |-> res.code])
          /\ IF res.code = 0
             THEN /\ summary' = Some(StationConverted(summary[1], stem, src[1]))
                  /\ dstFiles' = dstFiles \cup {stem}
                  /\ UNCHANGED unlinkErrors
             ELSE /\ summary' = Some(StationTranscodeFailed(summary[1], stem, src[1], res))
                  /\ dstFiles' = AfterUnlink(AfterWrite(dstFiles, stem, partial /\ res.code # 127), stem, unlinkFails)
                  /\ unlinkErrors' = UnlinkRaised(unlinkErrors, AfterWrite(dstFiles, stem, partial /\ res.code # 127), stem, unlinkFails)
  /\ NextStation

\* lines 233-234: write_import_cache, then return summary
WriteCache ==
  /\ impPc = "cache"
  /\ \E written \in BOOLEAN :
       /\ cacheFile' = (cacheFile \/ written)
       /\ summary' = Some(DictUpdate(summary[1], IF written THEN [cache_file |-> <<"target_dir", "import-cache.json">>] ELSE [cache_error |-> "OSError"]))
  /\ impPc' = "done"
  /\ UNCHANGED <<toolOnPath, jobVars, impRoot, impExc, stationIx, src, dstFiles, targetDir, unlinkErrors, toolRuns, findVars, locVars>>

\* ----------------------------------------------- locate_audio_directory
\* A path of the tree is absent, a regular file, or a directory with the set
\* of the names of its entries, each name <<stem, suffix>> as spelled on disk
\* (a case-sensitive file system: exists() matches the spelling).

NamedFolders == <<"audio", "Audio", "AUDIO", "AudioPC", "audiopc">>

AbsentPath == [kind |-> "absent", names |-> {}]
FilePath == [kind |-> "file", names |-> {}]
DirWith(names) == [kind |-> "dir", names |-> names]

\* what a directory may hold: nothing, files of the first one or two stations
\* (mp3 and WAV in turn, HEAD also as .wav beside its .mp3), or only names
\* that match no probe (a lower-case stem, an extension not recognized)
Holding(n) == {<<STATIONS[i], IF i % 2 = 1 THEN ".mp3" ELSE ".WAV">> : i \in 1..n} \cup (IF n >= 1 THEN {<<"HEAD", ".wav">>} ELSE {})
Decoys == {<<"head", ".mp3">>, <<"HEAD", ".ogg">>}
DirContents == {Holding(0), Holding(1), Holding(2), Decoys}

\* what root.rglob("*") yields below the root, other than the named
\* subfolders themselves: sequences of at most n files and directories
RECURSIVE ScanUpTo(_)
ScanUpTo(n) == IF n <= 0 THEN {<<>>} ELSE LET shorter == ScanUpTo(n - 1) IN shorter \cup {Append(sc, e) : sc \in {m \in shorter : Len(m) = n - 1}, e \in {FilePath} \cup {DirWith(c) : c \in DirContents}}

\* a tree: the root (absent, a file or a directory), the named subfolders
\* that exist (the set present of their indices, contents their names) and
\* the recursive listing
RootChoices == {AbsentPath, FilePath} \cup {DirWith(c) : c \in DirContents}
TreeOf(root, present, contents, scan) == [root |-> root, named |-> [i \in 1..Len(NamedFolders) |-> IF i \in present THEN DirWith(contents[i]) ELSE AbsentPath], scan |-> scan]
NoTree == [root |-> AbsentPath, named |-> [i \in 1..Len(NamedFolders) |-> AbsentPath], scan |-> <<>>]

\* count_station_matches: 0 unless the path is a directory; one per station
\* for which some (directory / stem+ext).exists()
count_station_matches(directory) == IF directory.kind # "dir" THEN 0 ELSE Cardinality({i \in 1..Len(STATIONS) : \E e \in 1..Len(VALID_EXTENSIONS) : <<STATIONS[i], VALID_EXTENSIONS[e]>> \in directory.names})

\* lines 81-89: the root, then root / name for each name, in this order
DirectEntries(t) == <<[path |-> <<>>, dir |-> t.root]>> \o [i \in 1..Len(NamedFolders) |-> [path |-> <<NamedFolders[i]>>, dir |-> t.named[i]]]

\* a locator without the recursive fallback
NoScanEntries(t) == <<>>

\* lines 92-94: the paths of root.rglob("*") that are directories, in the
\* order rglob yields them
IsDirEntry(entry) == entry.dir.kind = "dir"
ScanEntries(t) == SelectSeq([j \in 1..Len(t.scan) |-> [path |-> <<"rglob", j>>, dir |-> t.scan[j]]], IsDirEntry)

\* `if matches: candidates.append((matches, path))` over the first n entries
RECURSIVE ScoredUpTo(_, _)
ScoredUpTo(entries, n) == IF n = 0 THEN <<>> ELSE LET matches == count_station_matches(entries[n].dir) IN ScoredUpTo(entries, n - 1) \o (IF matches # 0 THEN <<[matches |-> matches, path |-> entries[n].path]>> ELSE <<>>)
Scored(entries) == ScoredUpTo(entries, Len(entries))

\* the candidates left in the order they were appended
Unsorted(candidates) == candidates

\* an ascending sort read from its end: among equal counts the last wins
RECURSIVE SortLastFirst(_)
SortLastFirst(candidates) == IF candidates = <<>> THEN <<>> ELSE LET rest == SortLastFirst(Tail(candidates)) k == Cardinality({i \in 1..Len(rest) : rest[i].matches >= Head(candidates).matches}) IN SubSeq(rest, 1, k) \o <<Head(candidates)>> \o SubSeq(rest, k + 1, Len(rest))

\* candidates.sort(key=lambda item: item[0], reverse=True): list.sort is
\* stable, also with reverse=True, so equal counts keep their order
RECURSIVE SortByMatches(_)
SortByMatches(candidates) == IF candidates = <<>> THEN <<>> ELSE LET rest == SortByMatches(Tail(candidates)) k == Cardinality({i \in 1..Len(rest) : rest[i].matches > Head(candidates).matches}) IN SubSeq(rest, 1, k) \o <<Head(candidates)>> \o SubSeq(rest, k + 1, Len(rest))

RootNotFound == [class |-> "AudioImportError", message |-> "Directory not found: root"]
Raises(exc) == [raised |-> Some(exc), value |-> None]
Returns(v) == [raised |-> None, value |-> Some(v)]

\* a locator that always adds the directories of the scan to the candidates
locate_audio_directory_scan_always(t) ==
  IF t.root.kind # "dir"
  THEN Raises(RootNotFound)
  ELSE LET candidates == Scored(DirectEntries(t)) \o Scored(ScanEntries(t))
       IN IF candidates = <<>>
          THEN Raises(DirectoryNotFound)
          ELSE Returns([path |-> SortByMatches(candidates)[1].path, matches |-> SortByMatches(candidates)[1].matches])

\* locate_audio_directory, lines 75-106
locate_audio_directory(t) ==
  IF t.root.kind # "dir"
  THEN Raises(RootNotFound)
  ELSE LET direct == Scored(DirectEntries(t))
           candidates == IF direct = <<>> THEN Scored(ScanEntries(t)) ELSE direct
       IN IF candidates = <<>>
          THEN Raises(DirectoryNotFound)
          ELSE Returns([path |-> SortByMatches(candidates)[1].path, matches |-> SortByMatches(candidates)[1].matches])

\* one call of locate_audio_directory on the tree
Locate ==
  /\ located = None
  /\ located' = Some(locate_audio_directory(tree))
  /\ UNCHANGED <<toolOnPath, jobVars, impRoot, impPc, impExc, stationIx, src, summary, dstFiles, cacheFile, targetDir, unlinkErrors, toolRuns, findVars, tree>>

\* ------------------------------------------- find_src on a given directory
\* line 180 for the first station, the listing of the directory given
FindListed ==
  /\ impPc = "find"
  /\ stationIx = 1
  /\ src' = find_src(audioDir, iterdirFails)
  /\ impPc' = "process"
  /\ UNCHANGED <<toolOnPath, jobVars, impRoot, impExc, stationIx, summary, dstFiles, cacheFile, targetDir, unlinkErrors, toolRuns, findVars, locVars>>

\* ---------------------------------------------------------- specifications

vars == <<toolOnPath, jobVars, impVars>>

\* nothing removed, no tool run, no find_src or locate_audio_directory call
ImportFresh ==
  /\ unlinkErrors = {}
  /\ toolRuns = <<>>
  /\ audioDir = <<>>
  /\ iterdirFails = FALSE
  /\ tree = NoTree
  /\ located = None

\* no synchronous run of the pipeline
ImportIdle ==
  /\ impRoot = ""
  /\ impPc = "idle"
  /\ impExc = None
  /\ stationIx = 0
  /\ src = None
  /\ summary = None
  /\ dstFiles = {}
  /\ cacheFile = FALSE
  /\ targetDir = FALSE
  /\ ImportFresh

\* n callers will call start_import_job; the registry is empty
JobInit(n) ==
  /\ toolOnPath \in BOOLEAN
  /\ JOB_REGISTRY = <<>>
  /\ callerPc = [c \in Callers |-> IF c <= n THEN "idle" ELSE "off"]
  /\ callerJob = [c \in Callers |-> 0]
  /\ callerRet = [c \in Callers |-> None]
  /\ workerPc = [j \in JobIds |-> "none"]
  /\ notified = [j \in JobIds |-> {}]
  /\ escaped = {}
  /\ polled = [t \in Pollers |-> None]
  /\ JOB_LOCK = None
  /\ unlocked = {}
  /\ pollPc = [t \in Pollers |-> None]
  /\ hookStation = [j \in JobIds |-> 0]

Init == JobInit(MaxJobs) /\ ImportIdle

\* serve.py as it stands with import_gta3_audio.py
Next ==
  \/ \E c \in Callers : CreateJob(c)
  \/ \E c \in Callers : ThreadStart(c)
  \/ \E c \in Callers : StartReturn(c)
  \/ \E j \in JobIds : WorkerRunning(j)
  \/ \E j \in JobIds : WorkerCall(j)
  \/ \E job_id \in JobIds : Poll("p1", job_id)

Spec == Init /\ [][Next]_vars

\* serve.py driving a pipeline that honours the observer; no status queries
HookNext ==
  \/ \E c \in Callers : CreateJob(c)
  \/ \E c \in Callers : ThreadStart(c)
  \/ \E c \in Callers : StartReturn(c)
  \/ \E j \in JobIds : WorkerRunning(j)
  \/ \E j \in JobIds : PipelineNotify(j)
  \/ \E j \in JobIds : PipelineReturns(j)
  \/ \E j \in JobIds : PipelineRaises(j)

\* two concurrent jobs
HookInit == JobInit(2) /\ ImportIdle

SpecHook == HookInit /\ [][HookNext]_vars

\* the same with one job and status queries from two threads
PollInit == JobInit(1) /\ ImportIdle

PollNext ==
  \/ HookNext
  \/ \E t \in Pollers, job_id \in JobIds : Poll(t, job_id)

SpecPoll == PollInit /\ [][PollNext]_vars

\* one synchronous run of import_gta3_audio; no job is started
ImportInit ==
  /\ JobInit(0)
  /\ impRoot \in Roots
  /\ impPc = "start"
  /\ impExc = None
  /\ stationIx = 0
  /\ src = None
  /\ summary = None
  /\ dstFiles \in SUBSET {STATIONS[i] : i \in 1..FileStations}
  /\ cacheFile \in BOOLEAN
  /\ targetDir \in {d \in BOOLEAN : (dstFiles # {} \/ cacheFile) => d}
  /\ ImportFresh

ImportNext ==
  \/ ImportStart
  \/ FindStation
  \/ ProcessMissing
  \/ ProcessCopy
  \/ ProcessTranscode
  \/ WriteCache

SpecImport == ImportInit /\ [][ImportNext]_vars

\* the first pass of the loop of import_gta3_audio on a given listing of the
\* audio directory: find_src for HEAD, then the copy or the transcode
FindInit ==
  /\ JobInit(0)
  /\ toolOnPath
  /\ impRoot = "/games/gta3"
  /\ impPc = "find"
  /\ impExc = None
  /\ stationIx = 1
  /\ src = None
  /\ summary = Some(NewSummary("ffmpeg"))
  /\ dstFiles \in SUBSET {STATIONS[1]}
  /\ cacheFile = FALSE
  /\ targetDir = TRUE
  /\ unlinkErrors = {}
  /\ toolRuns = <<>>
  /\ audioDir \in AllListings
  /\ iterdirFails \in BOOLEAN
  /\ tree = NoTree
  /\ located = None

FindNext ==
  \/ FindListed
  \/ ProcessMissing
  \/ ProcessCopy
  \/ ProcessTranscode

SpecFind == FindInit /\ [][FindNext]_vars

\* locate_audio_directory applied to every tree with at most MaxDirs paths
\* below the root
LocateInit ==
  /\ JobInit(0)
  /\ toolOnPath
  /\ impRoot = ""
  /\ impPc = "idle"
  /\ impExc = None
  /\ stationIx = 0
  /\ src = None
  /\ summary = None
  /\ dstFiles = {}
  /\ cacheFile = FALSE
  /\ targetDir = FALSE
  /\ unlinkErrors = {}
  /\ toolRuns = <<>>
  /\ audioDir = <<>>
  /\ iterdirFails = FALSE
  /\ \E present \in SUBSET (1..Len(NamedFolders)) :
       /\ Cardinality(present) <= MaxDirs
       /\ \E root \in RootChoices, contents \in [present -> DirContents], scan \in ScanUpTo(MaxDirs - Cardinality(present)) :
            tree = TreeOf(root, present, contents, scan)
  /\ located = None

LocateNext == Locate

SpecLocate == LocateInit /\ [][LocateNext]_vars

\* two jobs and one poller at the grain of JOB_LOCK
LockInit == JobInit(2) /\ ImportIdle

LockNext ==
  \/ \E c \in Callers : RegisterEnter(c)
  \/ \E c \in Callers : RegisterBody(c)
  \/ \E c \in Callers : StartThread(c)
  \/ \E c \in Callers : ReturnEnter(c)
  \/ \E c \in Callers : ReturnBody(c)
  \/ \E j \in JobIds : RunningEnter(j)
  \/ \E j \in JobIds : RunningBody(j)
  \/ \E j \in JobIds : ToolRuns(j)
  \/ \E j \in JobIds : HookEnter(j)
  \/ \E j \in JobIds : HookBody(j)
  \/ \E j \in JobIds : FinalizeEnter(j)
  \/ \E j \in JobIds : FinalizeBody(j)
  \/ \E j \in JobIds : ExceptEnter(j)
  \/ \E j \in JobIds : ExceptBody(j)
  \/ \E job_id \in JobIds : StatusEnter("p1", job_id)
  \/ StatusBody("p1")

SpecLock == LockInit /\ [][LockNext]_vars

\* the callers and workers of serve.py as it stands, every thread scheduled
\* fairly: a started thread that can take its next step takes it
LiveNext ==
  \/ \E c \in Callers : CreateJob(c)
  \/ \E c \in Callers : ThreadStart(c)
  \/ \E c \in Callers : StartReturn(c)
  \/ \E j \in JobIds : WorkerRunning(j)
  \/ \E j \in JobIds : WorkerCall(j)

LiveSpec == Init /\ [][LiveNext]_vars /\ \A c \in Callers : WF_vars(ThreadStart(c)) /\ \A j \in JobIds : WF_vars(WorkerRunning(j)) /\ WF_vars(WorkerCall(j))

\* ------------------------------------------------------------------ claims

Jobs == DOMAIN JOB_REGISTRY
Terminal == {"completed", "failed"}
\* ids start_import_job has handed to its caller
ReturnedIds == {callerJob[c] : c \in {d \in Callers : callerPc[d] = "returned"}}
\* the answers that carry a job
Found(answer) == answer # None /\ answer[1].job # None

\* C1: the status of a registered job only moves pending -> running and
\* running -> completed or failed; every other change of status, and the
\* removal of a job, never happens.
LegalStatusStep == {<<"pending", "running">>, <<"running", "completed">>, <<"running", "failed">>}
C4_CompletesOnGoodRoot == \A j \in Jobs : (workerPc[j] = "done" /\ Locatable(JOB_REGISTRY[j].gta3_dir) /\ toolOnPath) => (JOB_REGISTRY[j].status = "completed" /\ JOB_REGISTRY[j].summary # None /\ JOB_REGISTRY[j].progress = JOB_REGISTRY[j].total)

\* C5: no exception leaves the worker, and a worker that ended without
\* completing the job left it failed with a non-empty error message and no
\* summary.
NonEmptyMessage(parts) == \E i \in 1..Len(parts) : parts[i] # ""
C6_RegisteredBeforeStart == [](\A j \in JobIds : workerPc[j] # "none" => j \in Jobs) /\ [](\A c \in Callers : callerPc[c] = "started" => ENABLED StartReturn(c)) /\ [][\A j \in JobIds : (workerPc[j] = "none" /\ workerPc'[j] # "none") => (j \in Jobs /\ JOB_REGISTRY[j].status = "pending" /\ JOB_REGISTRY[j].progress = 0 /\ JOB_REGISTRY[j].records = <<>> /\ JOB_REGISTRY[j].summary = None /\ JOB_REGISTRY[j].error = None)]_vars
\* start_import_job has returned a pending job whose worker has not run yet
C6_Witness == \E c \in Callers : callerPc[c] = "returned" /\ callerRet[c][1].val.status = "pending" /\ workerPc[callerJob[c]] = "start" /\ JOB_REGISTRY[callerJob[c]].status = "pending"

C8_NotFoundIffUnknown == [][\A t \in Pollers : (polled'[t] # polled[t]) => /\ JOB_REGISTRY' = JOB_REGISTRY /\ (polled'[t][1].id \notin Allocated => (polled'[t][1].code = 404 /\ polled'[t][1].job = None)) /\ (polled'[t][1].id \in ReturnedIds => (polled'[t][1].code = 200 /\ Found(polled'[t]) /\ polled'[t][1].job[1].id = polled'[t][1].id))]_vars
\* a 404 for an unknown id while the registry holds a returned job
C8_Witness == polled["p1"] # None /\ polled["p1"][1].code = 404 /\ polled["p1"][1].id \notin Allocated /\ ReturnedIds # {}

\* C9: under fair scheduling every registered job eventually is completed or
\* failed.
C9_JobsTerminate == \A j \in JobIds : (j \in Jobs) ~> (j \in Jobs /\ JOB_REGISTRY[j].status \in Terminal)
\* every caller's job has reached a final status
C9_Witness == \A c \in Callers : callerPc[c] = "returned" /\ JOB_REGISTRY[callerJob[c]].status \in Terminal

\* C10: in every Summary import_gta3_audio returns, copied + converted +
\* len(failures) + len(missing) = expected = 9 and found = copied + converted
\* + len(failures).
C10_SummaryAccounting == impPc = "done" => (summary[1].copied + summary[1].converted + Len(summary[1].failures) + Len(summary[1].missing) = summary[1].expected /\ summary[1].expected = 9 /\ summary[1].found = summary[1].copied + summary[1].converted + Len(summary[1].failures))
\* a returned Summary with one station copied, one failed in the transcoder
\* and seven missing
C10_Witness == impPc = "done" /\ summary[1].copied = 1 /\ summary[1].failures = <<"CLASS">> /\ Len(summary[1].missing) = 7 /\ "exit_code" \in DOMAIN summary[1].details[2]

\* the stems of a list of the Summary
StemsOf(list) == {list[i] : i \in 1..Len(list)}
\* a record of a station whose tool run ended non-zero
FailedByTool(record) == record.status = "failed" /\ "exit_code" \in DOMAIN record

\* C11: with no transcoding tool resolvable the run's one step raises
\* AudioImportError (the tool's, when the audio directory was located): no
\* Summary is begun, no station is resolved, no tool is run, and the station
\* files and the import cache of the target directory are as they were.
C11_NoToolNoWrites == [](~toolOnPath => impPc \in {"start", "raised"}) /\ [][(~toolOnPath /\ impPc = "start") => (impPc' = "raised" /\ impExc' # None /\ impExc'[1].class = "AudioImportError" /\ (Locatable(impRoot) => impExc' = Some(ToolNotFound)) /\ summary' = None /\ stationIx' = 0 /\ src' = None /\ toolRuns' = <<>> /\ dstFiles' = dstFiles /\ cacheFile' = cacheFile)]_vars
\* the run raised for the missing tool after it made the target directory,
\* which holds nothing
C11_Witness == impPc = "raised" /\ ~toolOnPath /\ impExc = Some(ToolNotFound) /\ targetDir /\ dstFiles = {} /\ ~cacheFile

\* C12 as claimed: in a returned Summary every station whose tool run ended
\* non-zero is in failures, and its destination file does not exist.
C12_FailedLeavesNoFile == impPc = "done" => \A i \in 1..Len(summary[1].details) : FailedByTool(summary[1].details[i]) => (summary[1].details[i].stem \in StemsOf(summary[1].failures) /\ summary[1].details[i].stem \notin dstFiles)

\* C12 amended: a tool run that ends non-zero (127 included) records the
\* station failed with the exit code and lists it in failures, raises nothing,
\* goes on to the next station, and changes no other record, counter or
\* destination file; in a returned Summary the destination file of such a
\* station exists only if dst.unlink() raised the OSError that is passed over.
C12_FailedFileRemovedUnlessUnlinkRaises == [](impPc = "done" => \A i \in 1..Len(summary[1].details) : FailedByTool(summary[1].details[i]) => (summary[1].details[i].stem \in StemsOf(summary[1].failures) /\ (summary[1].details[i].stem \in dstFiles => summary[1].details[i].stem \in unlinkErrors))) /\ [][(impPc = "process" /\ Len(toolRuns') > Len(toolRuns) /\ toolRuns'[Len(toolRuns')].code # 0) => (impPc' \in {"find", "cache"} /\ impExc' = None /\ summary'[1].details = Append(summary[1].details, summary'[1].details[Len(summary'[1].details)]) /\ FailedByTool(summary'[1].details[Len(summary'[1].details)]) /\ summary'[1].details[Len(summary'[1].details)].exit_code = toolRuns'[Len(toolRuns')].code /\ summary'[1].details[Len(summary'[1].details)].stem = STATIONS[stationIx] /\ summary'[1].failures = Append(summary[1].failures, STATIONS[stationIx]) /\ summary'[1].copied = summary[1].copied /\ summary'[1].converted = summary[1].converted /\ summary'[1].missing = summary[1].missing /\ dstFiles' \ {STATIONS[stationIx]} = dstFiles \ {STATIONS[stationIx]})]_vars
\* HEAD failed in the tool (which was not found: 127) and its earlier
\* destination file is gone, CLASS was converted after it
C12_Witness == impPc = "done" /\ FailedByTool(summary[1].details[1]) /\ summary[1].details[1].exit_code = 127 /\ "HEAD" \notin dstFiles /\ unlinkErrors = {} /\ summary[1].details[2].status = "converted" /\ "CLASS" \in dstFiles

\* the paths of a tree: the root, root / name, and the paths of the scan
TreePaths(t) == {<<>>} \cup {<<NamedFolders[i]>> : i \in 1..Len(NamedFolders)} \cup {<<"rglob", j>> : j \in 1..Len(t.scan)}
DirectPaths == {<<>>} \cup {<<NamedFolders[i]>> : i \in 1..Len(NamedFolders)}
PathAt(t, path) == IF path = <<>> THEN t.root ELSE IF path[1] = "rglob" THEN t.scan[path[2]] ELSE t.named[CHOOSE i \in 1..Len(NamedFolders) : NamedFolders[i] = path[1]]
\* the stations for which the directory at a path holds an exact-case
\* STEM.mp3, STEM.MP3, STEM.wav or STEM.WAV; none when it is no directory
MatchesAt(t, path) == IF PathAt(t, path).kind # "dir" THEN 0 ELSE Cardinality({i \in 1..Len(STATIONS) : \E ext \in {".mp3", ".MP3", ".wav", ".WAV"} : <<STATIONS[i], ext>> \in PathAt(t, path).names})
\* the place of a path in the enumeration: the root, the named subfolders as
\* listed, the scan in its order
Rank(path) == IF path = <<>> THEN 0 ELSE IF path[1] = "rglob" THEN Len(NamedFolders) + path[2] ELSE CHOOSE i \in 1..Len(NamedFolders) : NamedFolders[i] = path[1]
\* the paths that are scored: the root and the named subfolders, and the
\* paths of the scan only when all of those score zero
ScoredPaths(t) == IF \E p \in DirectPaths : MatchesAt(t, p) > 0 THEN DirectPaths ELSE TreePaths(t)

\* C13 as claimed: when one directory of the tree holds files for strictly
\* more stations than every other directory of the tree, the call returns it
\* with its match count.
C13_LocatesBestOfTree == located # None => \A D \in TreePaths(tree) : (tree.root.kind = "dir" /\ \A O \in TreePaths(tree) \ {D} : MatchesAt(tree, D) > MatchesAt(tree, O)) => located[1] = Returns([path |-> D, matches |-> MatchesAt(tree, D)])

\* C13 amended: when one of the scored directories (the root, the named
\* subfolders, and the directories of the scan only when all of those score
\* zero) matches strictly more stations than every other scored directory,
\* the call returns it with its match count.
C13_LocatesBestCandidate == located # None => \A D \in ScoredPaths(tree) : (tree.root.kind = "dir" /\ \A O \in ScoredPaths(tree) \ {D} : MatchesAt(tree, D) > MatchesAt(tree, O)) => located[1] = Returns([path |-> D, matches |-> MatchesAt(tree, D)])
\* the subfolder AUDIO, with two stations, was returned over the root and
\* AudioPC with one each, while a deeper directory also holds two
C13_Witness == located # None /\ located[1] = Returns([path |-> <<"AUDIO">>, matches |-> 2]) /\ MatchesAt(tree, <<>>) = 1 /\ MatchesAt(tree, <<"AudioPC">>) = 1 /\ Len(tree.scan) = 1 /\ MatchesAt(tree, <<"rglob", 1>>) = 2

\* C15: the call raises AudioImportError exactly when the root is no
\* directory or every directory of the tree (root, named subfolders, scan)
\* matches no station; a returned directory comes with its own match count,
\* which is above zero.
C15_NotFoundIffAllZero == located # None => /\ (located[1].raised # None <=> (tree.root.kind # "dir" \/ \A p \in TreePaths(tree) : MatchesAt(tree, p) = 0)) /\ (located[1].raised # None => located[1].raised[1].class = "AudioImportError" /\ located[1].value = None) /\ (located[1].raised = None => (located[1].value # None /\ located[1].value[1].path \in TreePaths(tree) /\ located[1].value[1].matches > 0 /\ located[1].value[1].matches = MatchesAt(tree, located[1].value[1].path)))
\* the call raised on a tree whose root, one named subfolder and one deeper
\* directory exist and hold only names that match no probe
C15_Witness == located # None /\ located[1] = Raises(DirectoryNotFound) /\ tree.root = DirWith(Decoys) /\ tree.named[2] = DirWith(Decoys) /\ Len(tree.scan) = 2 /\ tree.scan[1] = FilePath /\ tree.scan[2] = DirWith(Decoys)

\* C20: the returned directory has the highest match count of the scored
\* directories and comes first, in the order root, audio, Audio, AUDIO,
\* AudioPC, audiopc, scan order, among those that share it.
C20_TieToFirstEnumerated == (located # None /\ located[1].value # None) => \A q \in ScoredPaths(tree) : MatchesAt(tree, q) <= MatchesAt(tree, located[1].value[1].path) /\ (MatchesAt(tree, q) = MatchesAt(tree, located[1].value[1].path) => Rank(located[1].value[1].path) <= Rank(q))
\* Audio was returned, tied at two with AudioPC behind it, the root matching
\* one
C20_Witness == located # None /\ located[1].value # None /\ located[1].value[1].path = <<"Audio">> /\ MatchesAt(tree, <<"AudioPC">>) = 2 /\ MatchesAt(tree, <<"Audio">>) = 2 /\ MatchesAt(tree, <<>>) = 1

\* the record the pass of the loop just appended
LastRecord(sum) == sum[1].details[Len(sum[1].details)]
\* both STEM.mp3 and STEM.wav, spelled exactly so, are entries of the listing
BothExist(l) == (\E i \in 1..Len(l) : l[i].exact /\ l[i].ext = ".mp3") /\ (\E j \in 1..Len(l) : l[j].exact /\ l[j].ext = ".wav")
\* the record of a station that went through the copy branch: copied, or
\* failed with the text of the OSError the copy raised; no exit code
CopyRecord(record) == "exit_code" \notin DOMAIN record /\ (record.status = "copied" \/ (record.status = "failed" /\ "error" \in DOMAIN record))

\* C14: when the audio directory holds both HEAD.mp3 and HEAD.wav, in
\* whatever order it lists them, find_src returns HEAD.mp3, and the pass of
\* the loop that follows takes the copy branch for it: the tool is not run
\* and the record (copied, unless the copy itself raised) names HEAD.mp3 as
\* its source.
C14_CanonicalPreferred == [][BothExist(audioDir) => /\ (impPc = "find" => (src' # None /\ src'[1].exact /\ src'[1].ext = ".mp3")) /\ (impPc = "process" => (toolRuns' = <<>> /\ CopyRecord(LastRecord(summary')) /\ LastRecord(summary').source = <<"audio_dir", "HEAD", TRUE, ".mp3">> /\ summary'[1].converted = 0 /\ (LastRecord(summary').status = "copied" => summary'[1].copied = 1)))]_vars
\* the directory lists HEAD.wav before HEAD.mp3, both regular files, and HEAD
\* was copied from HEAD.mp3
C14_Witness == audioDir = <<[exact |-> TRUE, ext |-> ".wav", kind |-> "file"], [exact |-> TRUE, ext |-> ".mp3", kind |-> "file"]>> /\ summary # None /\ Len(summary[1].details) = 1 /\ summary[1].details[1].status = "copied" /\ summary[1].details[1].source = <<"audio_dir", "HEAD", TRUE, ".mp3">> /\ "HEAD" \in dstFiles

\* C16: a pass of the loop with a resolved source whose suffix is .mp3 in any
\* letter case takes the copy branch (copied, unless the copy itself raised)
\* and does not run the tool; with any other suffix it runs the tool exactly
\* once and the station is converted iff the exit code is 0, failed
\* otherwise; no station has the tool run twice.  The run on a directory that
\* holds only HEAD.mp3 and class.WAV, copy and tool working, returns found 2,
\* copied 1, converted 1, seven missing and no failures.
C16_CopyOrTranscodeOnce == /\ [][(impPc = "process" /\ src # None) => IF src[1].ext \in {".mp3", ".MP3"} THEN (toolRuns' = toolRuns /\ CopyRecord(LastRecord(summary'))) ELSE (toolRuns' = Append(toolRuns, toolRuns'[Len(toolRuns')]) /\ toolRuns'[Len(toolRuns')].stem = STATIONS[stationIx] /\ LastRecord(summary').status \in {"converted", "failed"} /\ (LastRecord(summary').status = "converted" <=> toolRuns'[Len(toolRuns')].code = 0) /\ (LastRecord(summary').status = "failed" => LastRecord(summary').exit_code = toolRuns'[Len(toolRuns')].code))]_vars /\ [](\A i \in 1..Len(toolRuns), j \in 1..Len(toolRuns) : toolRuns[i].stem = toolRuns[j].stem => i = j) /\ []((impPc = "done" /\ summary[1].details[1] = [stem |-> "HEAD", status |-> "copied", source |-> PathOf("HEAD", find_src(<<[exact |-> TRUE, ext |-> ".mp3", kind |-> "file"]>>, FALSE)[1]), destination |-> DestOf("HEAD")] /\ summary[1].details[2] = [stem |-> "CLASS", status |-> "converted", source |-> PathOf("CLASS", find_src(<<[exact |-> FALSE, ext |-> ".WAV", kind |-> "file"]>>, FALSE)[1]), destination |-> DestOf("CLASS")] /\ \A i \in 3..Len(STATIONS) : summary[1].details[i].status = "missing") => (summary[1].found = 2 /\ summary[1].copied = 1 /\ summary[1].converted = 1 /\ Len(summary[1].missing) = 7 /\ summary[1].failures = <<>> /\ toolRuns = <<[stem |-> "CLASS", code |-> 0]>>))
\* the run on HEAD.mp3 and class.WAV has returned: HEAD copied, CLASS
\* converted by one tool run that exited 0, the other seven missing
C16_Witness == impPc = "done" /\ summary[1].details[1].status = "copied" /\ summary[1].details[1].source = <<"audio_dir", "HEAD", TRUE, ".mp3">> /\ summary[1].details[2].status = "converted" /\ summary[1].details[2].source = <<"audio_dir", "CLASS", FALSE, ".WAV">> /\ toolRuns = <<[stem |-> "CLASS", code |-> 0]>> /\ summary[1].found = 2 /\ Len(summary[1].missing) = 7 /\ dstFiles = {"HEAD", "CLASS"}

\* C17: a job whose worker has ended, on a root whose audio directory can be
\* located and with the tool resolvable, has had its observer notified of
\* every one of the 9 stations.
C17_ObserverNotifiedPerStation == \A j \in Jobs : (workerPc[j] = "done" /\ Locatable(JOB_REGISTRY[j].gta3_dir) /\ toolOnPath) => (notified[j] = 1..Len(STATIONS) /\ DOMAIN JOB_REGISTRY[j].records = {STATIONS[i] : i \in 1..Len(STATIONS)})

AccessInsideBlock == (JOB_REGISTRY' # JOB_REGISTRY \/ callerRet' # callerRet \/ polled' # polled) => (JOB_LOCK # None /\ JOB_LOCK' = None)
\* no worker holds the lock while its pipeline or the external tool runs
NotHeldInPipeline == \A j \in JobIds : workerPc[j] \in {"call", "tool"} => JOB_LOCK # Some(WorkerThread(j))
\* while a job is in the middle of a tool run the lock is free, so that a
\* status query can enter, or its holder can run its body and leave
LockAvailable == \A j \in JobIds : workerPc[j] = "tool" => ((JOB_LOCK = None /\ (pollPc["p1"] = None => \A job_id \in JobIds : ENABLED StatusEnter("p1", job_id))) \/ (JOB_LOCK # None /\ ENABLED LeaveBlock))

WithScan(t, sc) == [t EXCEPT !.scan = sc]
\* recursive listings of at most two paths
OtherScans == ScanUpTo(2)

\* C21: when the root or a named subfolder matches a station the call
\* returns the root or a named subfolder, and returns the same whatever the
\* recursive listing holds (no deeper directory, or any other ones); a
\* directory of the scan is returned only when the root and all named
\* subfolders match no station.
C21_ScanOnlyAsFallback == (located # None /\ tree.root.kind = "dir") => /\ ((\E p \in DirectPaths : MatchesAt(tree, p) > 0) => (located[1].value # None /\ located[1].value[1].path \in DirectPaths /\ \A sc \in OtherScans : locate_audio_directory(WithScan(tree, sc)) = located[1])) /\ ((located[1].value # None /\ located[1].value[1].path \notin DirectPaths) => \A p \in DirectPaths : MatchesAt(tree, p) = 0)
\* the root, matching one station, was returned although two deeper
\* directories match two stations each
C21_Witness == located # None /\ located[1] = Returns([path |-> <<>>, matches |-> 1]) /\ Len(tree.scan) = 2 /\ MatchesAt(tree, <<"rglob", 1>>) = 2 /\ MatchesAt(tree, <<"rglob", 2>>) = 2 /\ \A i \in 1..Len(NamedFolders) : tree.named[i] = AbsentPath

\* no entry of the listing is spelled STEM.mp3, STEM.MP3, STEM.wav or STEM.WAV
NoExactCase(l) == \A i \in 1..Len(l) : ~(l[i].exact /\ l[i].ext \in {".mp3", ".MP3", ".wav", ".WAV"})
\* the regular files of the listing that match the station when case is
\* ignored, stem and extension
LooseMatches(l) == {l[i] : i \in {k \in 1..Len(l) : l[k].kind = "file" /\ l[k].ext \in {".mp3", ".MP3", ".wav", ".WAV", ".Wav"}}}
IsMp3(e) == e.ext \in {".mp3", ".MP3"}

\* C22 as claimed: when no exact-case file exists for the station, find_src
\* returns a regular file that matches case-insensitively, one with the mp3
\* extension whenever the directory holds one, wherever the directory lists
\* it; it returns no directory, and not found when reading the directory
\* raises.
C22_LooseMatchByExtension == [][(impPc = "find" /\ NoExactCase(audioDir)) => /\ (iterdirFails => src' = None) /\ (src' # None => src'[1] \in LooseMatches(audioDir)) /\ ((~iterdirFails /\ \E e \in LooseMatches(audioDir) : IsMp3(e)) => (src' # None /\ IsMp3(src'[1])))]_vars

\* the details of the Summary, none before the Summary exists
DetailsOf(sum) == IF sum = None THEN <<>> ELSE sum[1].details
IsPrefix(a, b) == Len(a) <= Len(b) /\ SubSeq(b, 1, Len(a)) = a
CanonicalOrder == <<"HEAD", "CLASS", "KJAH", "RISE", "LIPS", "GAME", "MSX", "FLASH", "CHAT">>
\* record number i is the record of the i-th station and has a known status
InCanonicalOrder(details) == Len(details) <= Len(CanonicalOrder) /\ \A i \in 1..Len(details) : details[i].stem = CanonicalOrder[i] /\ details[i].status \in {"missing", "copied", "converted", "failed"}

\* C23: in a run that got past the structural checks the details always are
\* the records of the first stations of HEAD, CLASS, KJAH, RISE, LIPS, GAME,
\* MSX, FLASH, CHAT in that order, each with status missing, copied,
\* converted or failed; the pass for station number i appends exactly one
\* record, as number i; no other step changes the details and no step changes
\* a record that is there; when the loop is over there are 9 records.
C23_OneRecordPerStationInOrder == /\ [](InCanonicalOrder(DetailsOf(summary)) /\ (impPc \in {"cache", "done"} => Len(DetailsOf(summary)) = Len(CanonicalOrder))) /\ [][/\ IsPrefix(DetailsOf(summary), DetailsOf(summary')) /\ (impPc = "process" => (Len(DetailsOf(summary')) = stationIx /\ Len(DetailsOf(summary)) = stationIx - 1)) /\ (impPc # "process" => DetailsOf(summary') = DetailsOf(summary))]_vars
\* a finished run whose first station failed, whose second was converted and
\* whose other seven are missing; the cache file was written
C23_Witness == impPc = "done" /\ summary # None /\ Len(summary[1].details) = Len(CanonicalOrder) /\ summary[1].details[1].status = "failed" /\ summary[1].details[2].status = "converted" /\ summary[1].details[Len(CanonicalOrder)].status = "missing" /\ "cache_file" \in DOMAIN summary[1]

\* the fields of one job agree with its status
ConsistentJob(job) == /\ job.status \in {"pending", "running", "completed", "failed"} /\ (job.status = "completed" => (job.summary # None /\ job.error = None /\ job.progress = job.total)) /\ (job.status = "failed" => (job.error # None /\ job.summary = None)) /\ (job.status \in {"pending", "running"} => (job.summary = None /\ job.error = None))

FailingPass == impPc = "process" /\ src # None /\ LastRecord(summary').status = "failed"
\* a step touches no destination file but the one of the station of its pass
OwnFileOnly == IF impPc = "process" THEN dstFiles' \ {STATIONS[stationIx]} = dstFiles \ {STATIONS[stationIx]} ELSE dstFiles' = dstFiles
\* a pass that finds no source touches no destination file
MissingKeepsFiles == (impPc = "process" /\ src = None) => (LastRecord(summary').status = "missing" /\ dstFiles' = dstFiles)

\* C25 as claimed: the pass of a station whose copy or transcode fails ends
\* with no destination file for it, whether or not one existed before, and
\* so does the run; the pass of a missing station and every step that
\* belongs to another station leave its destination file as it was.
C25_FailedFileAlwaysGone == /\ [](impPc = "done" => \A i \in 1..Len(summary[1].details) : summary[1].details[i].status = "failed" => summary[1].details[i].stem \notin dstFiles) /\ [][FailingPass => STATIONS[stationIx] \notin dstFiles']_vars /\ [][MissingKeepsFiles]_vars /\ [][OwnFileOnly]_vars

\* C25 amended: the same, except that the destination file of a failed
\* station is still there when dst.unlink() raised the OSError that is
\* passed over.
C25_FailedFileGoneUnlessUnlinkRaises == /\ [](impPc = "done" => \A i \in 1..Len(summary[1].details) : summary[1].details[i].status = "failed" => (summary[1].details[i].stem \in dstFiles => summary[1].details[i].stem \in unlinkErrors)) /\ [][FailingPass => (STATIONS[stationIx] \in dstFiles' => STATIONS[stationIx] \in unlinkErrors')]_vars /\ [][MissingKeepsFiles]_vars /\ [][OwnFileOnly]_vars
\* HEAD was found missing and its earlier destination file is still there;
\* CLASS has an earlier destination file too, and its copy is about to fail
\* and take that file away
C25_Witness == impPc = "process" /\ STATIONS[stationIx] = "CLASS" /\ summary[1].details[1].status = "missing" /\ dstFiles = {"HEAD", "CLASS"} /\ src # None /\ ENABLED (ProcessCopy /\ LastRecord(summary').status = "failed" /\ dstFiles' = {"HEAD"} /\ unlinkErrors' = {})

====
